---- MODULE Spec2Model ----
(***************************************************************************)
(* Progressive import pipeline of src-tauri/src/lib.rs: recursive image    *)
(* discovery (scan_for_images), the folder summary (quick_scan), thumbnail *)
(* derivation (generate_fast_thumbnail) and the batched import with one    *)
(* "import-batch" event per batch (import_pack_progressive).               *)
(*                                                                         *)
(* Strings are sequences of one-character tokens, so that extension(),     *)
(* to_lowercase(), to_str() and to_string_lossy() are computed.  The two   *)
(* tokens "xFF" and "xFE" stand for bytes that are not valid UTF-8.  A     *)
(* path is the sequence of its components; its string form is the          *)
(* sequence of the components' string forms (the separator is implicit).   *)
(***************************************************************************)
EXTENDS Integers, Sequences, FiniteSets, TLC

\* lib.rs:254  let batch_size = 100;
batch_size == 100

\* Largest number of generated image files placed in one directory.
MaxBulk == 201

-----------------------------------------------------------------------------
(* Strings and paths *)

VALID_EXTENSIONS ==
    { <<"j","p","g">>, <<"j","p","e","g">>, <<"p","n","g">>,
      <<"w","e","b","p">>, <<"g","i","f">>, <<"b","m","p">> }

UpperCase == <<"A","B","C","D","E","F","G","H","I","J","K","L","M",
               "N","O","P","Q","R","S","T","U","V","W","X","Y","Z">>
LowerCase == <<"a","b","c","d","e","f","g","h","i","j","k","l","m",
               "n","o","p","q","r","s","t","u","v","w","x","y","z">>

InvalidBytes == {"xFF", "xFE"}
REPLACEMENT == "U+FFFD"

\* str::to_lowercase on one character
lower_char(c) ==
    IF \E i \in 1..Len(UpperCase) : UpperCase[i] = c
    THEN LowerCase[CHOOSE i \in 1..Len(UpperCase) : UpperCase[i] = c]
    ELSE c

\* str::to_lowercase
to_lowercase(s) == [i \in 1..Len(s) |-> lower_char(s[i])]

None == [some |-> FALSE, val |-> <<>>]
Some(v) == [some |-> TRUE, val |-> v]

\* OsStr::to_str: None when the string holds a byte that is not UTF-8
to_str(s) ==
    IF \E i \in 1..Len(s) : s[i] \in InvalidBytes THEN None ELSE Some(s)

\* OsStr::to_string_lossy: every invalid byte becomes U+FFFD
lossy_name(s) ==
    [i \in 1..Len(s) |-> IF s[i] \in InvalidBytes THEN REPLACEMENT ELSE s[i]]

\* Path::to_string_lossy().to_string()
to_string_lossy(p) == [i \in 1..Len(p) |-> lossy_name(p[i])]

\* Path::extension of a file name: the part after the last dot, unless the
\* name has no dot or its only dot is the first character.
extension(name) ==
    LET dots == { i \in 1..Len(name) : name[i] = "." }
    IN  IF dots = {} THEN None
        ELSE LET d == CHOOSE i \in dots : \A j \in dots : j <= i
             IN  IF d = 1 THEN None
                 ELSE Some(SubSeq(name, d + 1, Len(name)))

\* Path::file_name: the last component
file_name(p) == IF p = <<>> THEN None ELSE Some(p[Len(p)])

\* Path::parent: the path without its last component
parent(p) == IF p = <<>> THEN None ELSE Some(SubSeq(p, 1, Len(p) - 1))

\* Path::strip_prefix
strip_prefix(p, base) ==
    IF Len(base) <= Len(p) /\ SubSeq(p, 1, Len(base)) = base
    THEN Some(SubSeq(p, Len(base) + 1, Len(p)))
    ELSE None

\* Faulty variant: the extension is compared without lower-casing it.
has_valid_extension_case_sensitive(entry_path) ==
    LET ext == extension(entry_path[Len(entry_path)])
    IN  /\ ext.some
        /\ to_str(ext.val).some
        /\ to_str(ext.val).val \in VALID_EXTENSIONS

\* lib.rs:77-84: the extension test of one file path
has_valid_extension(entry_path) ==
    LET ext == extension(entry_path[Len(entry_path)])
    IN  /\ ext.some
        /\ to_str(ext.val).some
        /\ to_lowercase(to_str(ext.val).val) \in VALID_EXTENSIONS

-----------------------------------------------------------------------------
(* The file system: a tree of entries in directory-listing order *)

\* kind: "dir", "file", "other" (neither directory nor regular file),
\*       "err" (an entry whose DirEntry read_dir yields as Err)
\* readable: read_dir succeeds on this directory
\* thumb: how thumbnail generation ends for this file:
\*        "ok", "open", "decode" or "save" (the step that fails)
Node(kind, name, readable, thumb, entries) ==
    [kind |-> kind, name |-> name, readable |-> readable, thumb |-> thumb,
     entries |-> entries]

Dir(name, entries) == Node("dir", name, TRUE, "ok", entries)
LockedDir(name, entries) == Node("dir", name, FALSE, "ok", entries)
File(name, thumb) == Node("file", name, TRUE, thumb, <<>>)
Other(name) == Node("other", name, TRUE, "ok", <<>>)
ErrEntry == Node("err", <<>>, TRUE, "ok", <<>>)
Missing == Node("missing", <<>>, FALSE, "ok", <<>>)

Digit == <<"0","1","2","3","4","5","6","7","8","9">>

\* the name of the i-th generated file: f<ddd>.jpg
BulkName(i) ==
    <<"f", Digit[((i \div 100) % 10) + 1], Digit[((i \div 10) % 10) + 1],
      Digit[(i % 10) + 1], ".", "j", "p", "g">>

\* n generated image files; those with an index in bad do not decode
Bulk(n, bad) ==
    [i \in 1..n |-> File(BulkName(i - 1), IF (i - 1) \in bad THEN "decode" ELSE "ok")]

RootName == <<"r">>

\* The spec's scenario (a.png, b.txt, sub/c.jpg) plus generated files.
TreeScenario(n, bad) ==
    Dir(RootName,
        <<File(<<"a",".","p","n","g">>, "ok"),
          File(<<"b",".","t","x","t">>, "ok"),
          Dir(<<"s","u","b">>, <<File(<<"c",".","j","p","g">>, "save")>>)>>
        \o Bulk(n, bad))

\* Names that exercise the extension test, entries that are no files, an
\* empty directory and a second level of directories.
TreeNames(n, bad) ==
    Dir(RootName,
        <<File(<<"D",".","J","P","E","G">>, "ok"),
          File(<<".","p","n","g">>, "ok"),
          File(<<"n","o","e","x","t">>, "ok"),
          ErrEntry,
          Dir(<<"s">>,
              <<File(<<"e",".","W","e","b","P">>, "open"),
                Dir(<<"t",".","p","n","g">>,
                    Bulk(n, bad) \o <<File(<<"g",".">>, "ok")>>),
                File(<<"h",".","t","a","r",".","g","i","f">>, "ok")>>),
          Other(<<"o",".","b","m","p">>),
          Dir(<<"e","m","p","t","y">>, <<>>),
          File(<<"i",".","B","m","p">>, "ok"),
          File(<<"k",".","p","n","g","x">>, "ok")>>)

\* A subdirectory that cannot be listed, after some images.
TreeLocked(n, bad) ==
    Dir(RootName,
        Bulk(n, bad)
        \o <<LockedDir(<<"l">>, <<File(<<"m",".","p","n","g">>, "ok")>>),
             File(<<"z",".","g","i","f">>, "ok")>>)

\* Names that are not valid UTF-8.
TreeBytes(n, bad) ==
    Dir(RootName,
        <<Dir(<<"xFF">>, <<File(<<"a",".","p","n","g">>, "ok")>>),
          Dir(<<"xFE">>, <<File(<<"a",".","p","n","g">>, "decode")>>),
          File(<<"xFF",".","j","p","g">>, "ok"),
          File(<<"q",".","j","xFE","g">>, "ok")>>
        \o Bulk(n, bad))

\* fs::metadata through a path, from the root of the file system
RECURSIVE Resolve(_, _, _)
Resolve(node, p, i) ==
    IF i > Len(p) THEN node
    ELSE IF node.kind # "dir" THEN Missing
    ELSE LET hit == { k \in 1..Len(node.entries) :
                        /\ node.entries[k].kind # "err"
                        /\ node.entries[k].name = p[i] }
         IN  IF hit = {} THEN Missing
             ELSE Resolve(node.entries[CHOOSE k \in hit : TRUE], p, i + 1)

Lookup(fsRoot, p) ==
    IF p = <<>> \/ p[1] # fsRoot.name THEN Missing ELSE Resolve(fsRoot, p, 2)

-----------------------------------------------------------------------------
(* scan_for_images *)

Ok(v) == [ok |-> TRUE, val |-> v, err |-> <<>>]
Err(e) == [ok |-> FALSE, val |-> <<>>, err |-> e]

\* lib.rs:61-89.  The result is Ok with the paths this call pushes onto
\* `images` (in push order), or the first error: with `?` an error leaves
\* the loop at once and the vector is dropped by scan_for_images.
\* scan_entries is the loop of lines 69-86 over entries[lo..hi], evaluated
\* as its first half followed by its second half.
\* Faulty variant: a directory that cannot be scanned is skipped and the scan goes on.
scan_then_skipping(first, rest) ==
    IF first.ok /\ rest.ok THEN Ok(first.val \o rest.val)
    ELSE IF first.ok THEN first
    ELSE IF rest.ok THEN rest
    ELSE Ok(<<>>)

\* scan_then(first, rest): rest runs only when first did not fail.
scan_then(first, rest) ==
    IF ~first.ok THEN first
    ELSE IF rest.ok THEN Ok(first.val \o rest.val)
    ELSE rest

RECURSIVE scan_recursive(_, _)
RECURSIVE scan_entries(_, _, _, _)
scan_recursive(path, node) ==
    IF node.kind = "missing"
    THEN Err(<<"Path does not exist", to_string_lossy(path)>>)
    ELSE IF node.kind # "dir" \/ ~node.readable
    THEN Err(<<"Failed to read directory", to_string_lossy(path)>>)
    ELSE scan_entries(path, node.entries, 1, Len(node.entries))

scan_entries(path, entries, lo, hi) ==
    IF lo > hi THEN Ok(<<>>)
    ELSE IF lo = hi
    THEN LET entry == entries[lo]
             entry_path == Append(path, entry.name)
         IN  IF entry.kind = "err" THEN Ok(<<>>)
             ELSE IF entry.kind = "dir" THEN scan_recursive(entry_path, entry)
             ELSE IF entry.kind = "file" /\ has_valid_extension(entry_path)
             THEN Ok(<<entry_path>>)
             ELSE Ok(<<>>)
    ELSE scan_then(scan_entries(path, entries, lo, (lo + hi) \div 2),
                   scan_entries(path, entries, ((lo + hi) \div 2) + 1, hi))

\* lib.rs:58-93
scan_for_images(fsRoot, folder_path) ==
    scan_recursive(folder_path, Lookup(fsRoot, folder_path))

-----------------------------------------------------------------------------
(* f32 arithmetic: a positive float is m * 2^e with 2^23 <= m < 2^24;       *)
(* every operation rounds to nearest, ties to even, as IEEE 754 does.       *)

RECURSIVE bitlen(_)
bitlen(x) == IF x = 0 THEN 0 ELSE 1 + bitlen(x \div 2)

RECURSIVE odd_part(_)
odd_part(x) == IF x % 2 = 0 THEN odd_part(x \div 2) ELSE x

\* x / 2^k rounded to nearest, ties to even
round_shift(x, k) ==
    LET q == x \div (2 ^ k)
        r == x % (2 ^ k)
        half == 2 ^ (k - 1)
    IN  IF r > half \/ (r = half /\ q % 2 = 1) THEN q + 1 ELSE q

\* the f32 nearest to m * 2^e, for an integer m > 0
f32_round(m, e) ==
    LET l == bitlen(m)
    IN  IF l <= 24 THEN [m |-> m * 2 ^ (24 - l), e |-> e - (24 - l)]
        ELSE LET r == round_shift(m, l - 24)
             IN  IF r = 2 ^ 24 THEN [m |-> 2 ^ 23, e |-> e + (l - 24) + 1]
                 ELSE [m |-> r, e |-> e + (l - 24)]

\* `n as f32` for a usize n > 0
as_f32(n) == f32_round(n, 0)

\* x / y in f32: 25 quotient bits and a sticky bit, then one rounding.
\* The operands are reduced to their odd parts first, which keeps the
\* intermediate products within 32 bits for the small integers divided here.
f32_div(x, y) ==
    LET a == odd_part(x.m)
        b == odd_part(y.m)
        ea == x.e + (bitlen(x.m) - bitlen(a))
        eb == y.e + (bitlen(y.m) - bitlen(b))
        la == bitlen(a)
        lb == bitlen(b)
        a1 == IF lb > la THEN a * 2 ^ (lb - la) ELSE a
        b1 == IF la > lb THEN b * 2 ^ (la - lb) ELSE b
        e1 == (ea - (IF lb > la THEN lb - la ELSE 0))
              - (eb - (IF la > lb THEN la - lb ELSE 0))
        s == IF a1 >= b1 THEN 24 ELSE 25
        q2 == (a1 * 2 ^ s) \div b1
        sticky == (a1 * 2 ^ s) % b1 # 0
        q == q2 \div 2
        up == q2 % 2 = 1 /\ (sticky \/ q % 2 = 1)
        r == IF up THEN q + 1 ELSE q
    IN  IF r = 2 ^ 24 THEN [m |-> 2 ^ 23, e |-> e1 - s + 2]
        ELSE [m |-> r, e |-> e1 - s + 1]

\* x * 100.0 in f32 (100 = 25 * 2^2)
f32_mul100(x) == f32_round(x.m * 25, x.e + 2)

\* x <= y for positive floats
f32_le(x, y) == x.e < y.e \/ (x.e = y.e /\ x.m <= y.m)

\* Faulty variant: the quotient is taken in usize before the conversion to f32.
progress_of_integer_division(batch_num, total_batches) ==
    IF (batch_num + 1) \div total_batches = 0 THEN [m |-> 0, e |-> -1]
    ELSE f32_mul100(as_f32((batch_num + 1) \div total_batches))

\* lib.rs:297
progress_of(batch_num, total_batches) ==
    f32_mul100(f32_div(as_f32(batch_num + 1), as_f32(total_batches)))

-----------------------------------------------------------------------------
(* The trees, roots and environments a run may start from *)

\* numbers of generated files: around every multiple of batch_size
BulkCounts ==
    { n \in 0..MaxBulk :
        \/ n = MaxBulk
        \/ n % batch_size = 0
        \/ n % batch_size >= batch_size - 3 }

\* which generated files are corrupt
BadSets == { {}, {1, batch_size}, 0..MaxBulk }

Trees ==
    UNION { { TreeScenario(n, bad), TreeNames(n, bad), TreeLocked(n, bad),
              TreeBytes(n, bad) } : n \in BulkCounts, bad \in BadSets }

\* the folder_path arguments tried
FolderPaths ==
    { <<RootName>>,
      <<RootName, <<"s">>>>,
      <<RootName, <<"e","m","p","t","y">>>>,
      <<RootName, <<"a",".","p","n","g">>>>,
      <<<<"g","o","n","e">>>> }

\* app_handle.path().app_data_dir() and create_dir_all(thumbnails_dir)
ThumbsEnvs == { "ok", "no_app_data_dir", "unwritable" }

APP_DATA == <<<<"a","p","p","d","a","t","a">>>>
THUMBNAILS == <<"t","h","u","m","b","n","a","i","l","s">>

-----------------------------------------------------------------------------
(* generate_fast_thumbnail and the per-image closure of the import *)

Min(a, b) == IF a <= b THEN a ELSE b

\* Uuid::new_v4().to_string(): the k-th identifier drawn in this process
uuid(k) ==
    <<"u", Digit[((k \div 100) % 10) + 1], Digit[((k \div 10) % 10) + 1],
      Digit[(k % 10) + 1]>>

\* lib.rs:137-167
generate_fast_thumbnail(fsRoot, env, source_path, image_id) ==
    IF env = "no_app_data_dir" THEN Err(<<"Failed to get app data dir">>)
    ELSE IF env = "unwritable" THEN Err(<<"Failed to create thumbnails dir">>)
    ELSE LET src == Lookup(fsRoot, source_path)
             thumb_path == APP_DATA
                           \o <<THUMBNAILS, image_id \o <<".","j","p","g">>>>
         IN  IF src.kind # "file" \/ src.thumb = "open" THEN Err(<<"Skip">>)
             ELSE IF src.thumb = "decode" THEN Err(<<"Skip">>)
             ELSE IF src.thumb = "save" THEN Err(<<"Skip">>)
             ELSE Ok(to_string_lossy(thumb_path))

UNKNOWN == <<"u","n","k","n","o","w","n">>

\* Faulty variant: filter_map drops the image whose thumbnail was not generated.
thumbnail_info_dropping(fsRoot, env, source_path, img_path, image_id) ==
    LET generated == generate_fast_thumbnail(fsRoot, env, img_path, image_id)
    IN  IF ~generated.ok THEN None
        ELSE Some([id |-> image_id,
                   original_path |-> to_string_lossy(img_path),
                   thumbnail_path |-> generated.val,
                   filename |-> to_string_lossy(img_path)[Len(img_path)],
                   relative_path |-> <<>>])

\* lib.rs:264-294: the closure given to filter_map
thumbnail_info(fsRoot, env, source_path, img_path, image_id) ==
    LET fname == file_name(img_path)
        filename == IF fname.some /\ to_str(fname.val).some
                    THEN to_str(fname.val).val ELSE UNKNOWN
        stripped == strip_prefix(img_path, source_path)
        rel == IF stripped.some THEN parent(stripped.val) ELSE None
        relative_path ==
            IF rel.some /\ \A i \in 1..Len(rel.val) : to_str(rel.val[i]).some
            THEN rel.val ELSE <<>>
        original_path_str == to_string_lossy(img_path)
        generated == generate_fast_thumbnail(fsRoot, env, img_path, image_id)
        thumbnail_path == IF generated.ok THEN generated.val
                          ELSE original_path_str
    IN  Some([id |-> image_id,
              original_path |-> original_path_str,
              thumbnail_path |-> thumbnail_path,
              filename |-> filename,
              relative_path |-> relative_path])

\* Faulty variant: the chunk's end is off by one, so chunks overlap.
chunk_at_overlapping(v, k) ==
    SubSeq(v, k * batch_size + 1, Min((k + 1) * batch_size + 1, Len(v)))

\* Faulty variant: chunks_exact, which leaves the last partial chunk out.
chunks_exact_left(v, k) == (k + 1) * batch_size <= Len(v)

\* slice::chunks(batch_size): the chunk the iterator yields at position k
\* (0-based); the iterator ends when no element is left
chunk_at(v, k) == SubSeq(v, k * batch_size + 1, Min((k + 1) * batch_size, Len(v)))
chunks_left(v, k) == k * batch_size < Len(v)

\* lib.rs:262-295: iter().filter_map(closure).collect() over one chunk; the
\* identifiers are the next Len(chunk) ones after the `drawn` already used
batch_thumbnails(fsRoot, env, source_path, chunk, drawn) ==
    LET out == [k \in 1..Len(chunk) |->
                  thumbnail_info(fsRoot, env, source_path, chunk[k], uuid(drawn + k))]
        kept == SelectSeq(out, LAMBDA o : o.some)
    IN  [k \in 1..Len(kept) |-> kept[k].val]

\* lib.rs:161-164: the thumbnail files the calls for one chunk write
written_files(fsRoot, env, chunk, drawn) ==
    { generate_fast_thumbnail(fsRoot, env, chunk[k], uuid(drawn + k)).val :
        k \in { j \in 1..Len(chunk) :
                  generate_fast_thumbnail(fsRoot, env, chunk[j], uuid(drawn + j)).ok } }

\* lib.rs:255
total_batches_of(total) == (total + batch_size - 1) \div batch_size

-----------------------------------------------------------------------------
(* quick_scan *)

\* lib.rs:107-112: folder_map after the loop over images[lo..hi], as the
\* map of the first half with the second half's increments added
add_counts(a, b) ==
    [k \in DOMAIN a \cup DOMAIN b |->
       (IF k \in DOMAIN a THEN a[k] ELSE 0)
       + (IF k \in DOMAIN b THEN b[k] ELSE 0)]

RECURSIVE folder_counts(_, _, _)
folder_counts(images, lo, hi) ==
    IF lo > hi THEN << >>
    ELSE IF lo = hi
    THEN LET par == parent(images[lo])
         IN  IF par.some THEN [k \in {to_string_lossy(par.val)} |-> 1] ELSE << >>
    ELSE add_counts(folder_counts(images, lo, (lo + hi) \div 2),
                    folder_counts(images, ((lo + hi) \div 2) + 1, hi))

\* lib.rs:116-128
folder_info(path, count) ==
    [path |-> path,
     name |-> IF file_name(path).some THEN file_name(path).val
              ELSE <<"U","n","k","n","o","w","n">>,
     image_count |-> count]

-----------------------------------------------------------------------------
(* State *)

VARIABLES
    fs,             \* the file system below (and including) the root "r"
    thumbs_env,     \* whether the thumbnails directory can be had
    pc,             \* "idle", "loop", "emit", "done", "failed", "quick_done"
    source_path,    \* folder_path of the running command
    images,         \* lib.rs:246
    total,          \* lib.rs:248
    total_batches,  \* lib.rs:255
    batch_num,      \* lib.rs:257, the enumerate() counter
    thumbnails,     \* lib.rs:262, the records of the batch being reported
    emitted,        \* the "import-batch" events the frontend received
    result,         \* what the command returned: Ok / Err, or "running"
    uuids,          \* number of identifiers drawn so far
    thumb_files,    \* files written under the thumbnails directory
    thumb_calls,    \* number of calls of generate_fast_thumbnail
    rejected,       \* batch index of the event the sink refused, or -1
    quick           \* the result of quick_scan, or "none"

vars == <<fs, thumbs_env, pc, source_path, images, total, total_batches,
          batch_num, thumbnails, emitted, result, uuids, thumb_files,
          thumb_calls, rejected, quick>>

Running == [ok |-> FALSE, val |-> <<>>, err |-> <<"running">>]

Init ==
    /\ fs \in Trees
    /\ thumbs_env \in ThumbsEnvs
    /\ pc = "idle"
    /\ source_path = <<>>
    /\ images = <<>>
    /\ total = 0
    /\ total_batches = 0
    /\ batch_num = 0
    /\ thumbnails = <<>>
    /\ emitted = <<>>
    /\ result = Running
    /\ uuids = 0
    /\ thumb_files = {}
    /\ thumb_calls = 0
    /\ rejected = -1
    /\ quick = Running

\* lib.rs:243-255: the scan and the batch count
ImportStart(folder_path) ==
    /\ pc = "idle"
    /\ source_path' = folder_path
    /\ \E scanned \in {scan_for_images(fs, folder_path)} :
           IF scanned.ok
           THEN /\ images' = scanned.val
                /\ total' = Len(scanned.val)
                /\ total_batches' = total_batches_of(Len(scanned.val))
                /\ pc' = "loop"
                /\ result' = result
           ELSE /\ pc' = "failed"
                /\ result' = Err(scanned.err)
                /\ UNCHANGED <<images, total, total_batches>>
    /\ UNCHANGED <<fs, thumbs_env, batch_num, thumbnails, emitted, uuids,
                   thumb_files, thumb_calls, rejected, quick>>

\* lib.rs:257-299: the next chunk's thumbnails, progress not yet sent
Generate ==
    /\ pc = "loop"
    /\ chunks_left(images, batch_num)
    /\ \E chunk \in {chunk_at(images, batch_num)} :
         /\ thumbnails' = batch_thumbnails(fs, thumbs_env, source_path, chunk, uuids)
         /\ uuids' = uuids + Len(chunk)
         /\ thumb_calls' = thumb_calls + Len(chunk)
         /\ thumb_files' = thumb_files
                           \cup written_files(fs, thumbs_env, chunk, uuids)
    /\ pc' = "emit"
    /\ UNCHANGED <<fs, thumbs_env, source_path, images, total, total_batches,
                   batch_num, emitted, result, rejected, quick>>

\* Faulty variant: the report carries the 1-based batch number that is logged.
batch_progress_one_based ==
    [batch |-> batch_num + 1,
     total_batches |-> total_batches,
     thumbnails |-> thumbnails,
     progress |-> progress_of(batch_num, total_batches)]

\* lib.rs:301-310
batch_progress ==
    [batch |-> batch_num,
     total_batches |-> total_batches,
     thumbnails |-> thumbnails,
     progress |-> progress_of(batch_num, total_batches)]

\* Faulty variant: the result of app.emit is dropped and the loop goes on.
Emit_ignoring_failure ==
    /\ pc = "emit"
    /\ \E delivered \in BOOLEAN :
         /\ emitted' = IF delivered
                       THEN Append(emitted,
                                   [batch |-> batch_num,
                                    total_batches |-> total_batches,
                                    thumbnails |-> thumbnails,
                                    progress |-> progress_of(batch_num, total_batches)])
                       ELSE emitted
         /\ rejected' = IF delivered \/ rejected # -1 THEN rejected ELSE batch_num
    /\ batch_num' = batch_num + 1
    /\ pc' = "loop"
    /\ UNCHANGED <<fs, thumbs_env, source_path, images, total, total_batches,
                   thumbnails, result, uuids, thumb_files, thumb_calls, quick>>

\* lib.rs:309-320: app.emit succeeds and the loop goes on, or it fails and
\* `?` returns the error
Emit ==
    /\ pc = "emit"
    /\ \E delivered \in BOOLEAN :
         IF delivered
         THEN /\ emitted' = Append(emitted, batch_progress)
              /\ batch_num' = batch_num + 1
              /\ pc' = "loop"
              /\ UNCHANGED <<result, rejected>>
         ELSE /\ pc' = "failed"
              /\ result' = Err(<<"Failed to emit event">>)
              /\ rejected' = batch_num
              /\ UNCHANGED <<emitted, batch_num>>
    /\ UNCHANGED <<fs, thumbs_env, source_path, images, total, total_batches,
                   thumbnails, uuids, thumb_files, thumb_calls, quick>>

\* lib.rs:322-329: the chunks are exhausted
Finish ==
    /\ pc = "loop"
    /\ ~chunks_left(images, batch_num)
    /\ pc' = "done"
    /\ result' = Ok(<<>>)
    /\ UNCHANGED <<fs, thumbs_env, source_path, images, total, total_batches,
                   batch_num, thumbnails, emitted, uuids, thumb_files,
                   thumb_calls, rejected, quick>>

\* lib.rs:96-135.  HashMap::into_iter yields the folders in any order.
QuickScan(folder_path) ==
    /\ pc = "idle"
    /\ source_path' = folder_path
    /\ pc' = "quick_done"
    /\ \E scanned \in {scan_for_images(fs, folder_path)} :
           IF scanned.ok
           THEN \E folder_map \in {folder_counts(scanned.val, 1, Len(scanned.val))} :
                LET n == Cardinality(DOMAIN folder_map)
                IN  /\ images' = scanned.val
                    /\ \E order \in [1..n -> DOMAIN folder_map] :
                         /\ \A i, j \in 1..n : order[i] = order[j] => i = j
                         /\ quick' = Ok([total |-> Len(scanned.val),
                                         folders |->
                                           [i \in 1..n |->
                                              folder_info(order[i],
                                                          folder_map[order[i]])]])
           ELSE /\ quick' = Err(scanned.err)
                /\ images' = images
    /\ UNCHANGED <<fs, thumbs_env, total, total_batches, batch_num,
                   thumbnails, emitted, result, uuids, thumb_files, thumb_calls,
                   rejected>>

Next ==
    \/ \E folder_path \in FolderPaths : ImportStart(folder_path)
    \/ Generate
    \/ Emit
    \/ Finish
    \/ \E folder_path \in FolderPaths : QuickScan(folder_path)

Spec == Init /\ [][Next]_vars

-----------------------------------------------------------------------------
(* Vocabulary of the properties, stated without the operators above *)

Range(f) == { f[i] : i \in DOMAIN f }

\* ceil(n / b): the least k with k * b >= n
CeilDiv(n, b) == CHOOSE k \in 0..n : k * b >= n /\ \A j \in 0..(k - 1) : j * b < n

RECURSIVE RecordCount(_, _)
RecordCount(reports, i) ==
    IF i = 0 THEN 0 ELSE Len(reports[i].thumbnails) + RecordCount(reports, i - 1)

RECURSIVE AllRecords(_, _)
AllRecords(reports, i) ==
    IF i = 0 THEN <<>> ELSE AllRecords(reports, i - 1) \o reports[i].thumbnails

\* the regular files at any depth below a directory, with their attributes
RECURSIVE FilesBelow(_, _)
FilesBelow(path, node) ==
    UNION { IF node.entries[i].kind = "dir"
            THEN FilesBelow(Append(path, node.entries[i].name), node.entries[i])
            ELSE IF node.entries[i].kind = "file"
            THEN { [path |-> Append(path, node.entries[i].name),
                    thumb |-> node.entries[i].thumb] }
            ELSE {} : i \in 1..Len(node.entries) }

\* a directory that can be listed, and so can all directories below it
RECURSIVE Readable(_)
Readable(node) ==
    /\ node.kind = "dir"
    /\ node.readable
    /\ \A i \in 1..Len(node.entries) :
         node.entries[i].kind = "dir" => Readable(node.entries[i])

\* a name "<stem>.<ext>" with a non-empty stem, no dot in ext, and ext equal
\* to one of the six extensions up to the case of its letters
IsImageName(name) ==
    \E d \in 2..Len(name) :
      /\ name[d] = "."
      /\ \A j \in (d + 1)..Len(name) : name[j] # "."
      /\ \E v \in VALID_EXTENSIONS :
           /\ Len(v) = Len(name) - d
           /\ \A j \in 1..Len(v) :
                \/ name[d + j] = v[j]
                \/ \E c \in 1..Len(LowerCase) :
                     LowerCase[c] = v[j] /\ UpperCase[c] = name[d + j]

IsCompleted == pc = "done"
ScanSucceeded ==
    \/ pc \in {"loop", "emit", "done"}
    \/ pc = "failed" /\ rejected # -1
    \/ pc = "quick_done" /\ quick.ok

EmitError == Err(<<"Failed to emit event">>)
HUNDRED == [m |-> 13107200, e |-> -17]

-----------------------------------------------------------------------------
(* C1 *)

\* C1: a completed import run has emitted exactly ceil(N/B) reports (none
\* when N = 0) whose record counts sum to N; every report ever emitted
\* carries at most B records and the total_batches field ceil(N/B).
C1_BatchCount ==
    /\ \A j \in 1..Len(emitted) :
         /\ Len(emitted[j].thumbnails) <= batch_size
         /\ emitted[j].total_batches = CeilDiv(Len(images), batch_size)
    /\ IsCompleted =>
         /\ Len(emitted) = CeilDiv(Len(images), batch_size)
         /\ RecordCount(emitted, Len(emitted)) = Len(images)

C1_Witness ==
    /\ IsCompleted
    /\ Len(emitted) >= 3
    /\ Len(emitted[Len(emitted)].thumbnails) < batch_size

\* C2: reports are emitted in increasing batch-index order from 0 without
\* gaps: a step that changes the delivered sequence appends one report, and
\* the k-th report delivered has batch index k - 1.
C2_Order ==
    [][emitted' # emitted =>
         /\ Len(emitted') = Len(emitted) + 1
         /\ SubSeq(emitted', 1, Len(emitted)) = emitted
         /\ emitted'[Len(emitted')].batch = Len(emitted)]_vars

C2_Witness ==
    /\ Len(emitted) >= 3
    /\ emitted[3].batch = 2

\* the files of the tree whose thumbnail derivation ends in Skip
SkipPaths ==
    { f.path : f \in { g \in FilesBelow(<<RootName>>, fs) : g.thumb # "ok" } }

\* C3: an image whose thumbnail generation skips keeps its record, with the
\* thumbnail path equal to the original path; every report holds one record
\* per image of its chunk, in order, the images that do not skip get a
\* path of their own under the thumbnails directory, and a run that has
\* processed images fails only when the sink rejects a report.
C3_Degradation ==
    /\ (pc = "failed" /\ thumb_calls > 0) => rejected # -1
    /\ \A j \in 1..Len(emitted) :
         \E chunk \in {SubSeq(images, (j - 1) * batch_size + 1,
                              Min(j * batch_size, Len(images)))} :
         \E skips \in {SkipPaths} :
           /\ Len(emitted[j].thumbnails) = Len(chunk)
           /\ \A k \in 1..Len(chunk) :
                \E rec \in {emitted[j].thumbnails[k]} :
                  /\ rec.original_path = to_string_lossy(chunk[k])
                  /\ chunk[k] \in skips => rec.thumbnail_path = rec.original_path
                  /\ (chunk[k] \notin skips /\ thumbs_env = "ok") =>
                        /\ rec.thumbnail_path # rec.original_path
                        /\ rec.thumbnail_path \in thumb_files

C3_Witness ==
    /\ thumbs_env = "ok"
    /\ Len(emitted) >= 2
    /\ \E k \in 1..Len(emitted[1].thumbnails) :
         /\ images[k] \in SkipPaths
         /\ emitted[1].thumbnails[k].thumbnail_path
              = emitted[1].thumbnails[k].original_path
    /\ \E k \in 1..Len(emitted[1].thumbnails) : images[k] \notin SkipPaths

\* C4: a completed run has delivered exactly one record per discovered
\* image, in discovery order: the records of all reports, concatenated in
\* emission order, carry the string forms of the scanned paths one for one.
C4_OneRecordPerImage ==
    IsCompleted =>
      \E recs \in {AllRecords(emitted, Len(emitted))} :
        /\ Len(recs) = Len(images)
        /\ \A k \in 1..Len(images) :
             recs[k].original_path = to_string_lossy(images[k])

C4_Witness ==
    /\ IsCompleted
    /\ Len(emitted) >= 2
    /\ \E k \in 1..Len(emitted[2].thumbnails) :
         emitted[2].thumbnails[k].thumbnail_path
           = emitted[2].thumbnails[k].original_path

\* C5: when the scan cannot succeed (the root is missing or no directory,
\* or a directory below it cannot be listed), the import fails with the
\* scanner's error, emits no report and generates no thumbnail.
C5_ScanFailure ==
    (pc \notin {"idle", "quick_done"}
       /\ ~Readable(Lookup(fs, source_path))) =>
      /\ pc = "failed"
      /\ ~result.ok
      /\ result.err[1] \in {"Path does not exist", "Failed to read directory"}
      /\ emitted = <<>>
      /\ thumb_calls = 0
      /\ thumb_files = {}

C5_Witness ==
    /\ pc = "failed"
    /\ Lookup(fs, source_path).kind = "missing"
    /\ result.err[1] = "Path does not exist"

\* C6: once the sink has rejected the report of batch i the run has failed
\* with an error, exactly the reports of batches 0..i-1 stand, no image of a
\* later batch has been processed, and nothing is delivered or processed
\* afterwards.
C6_State ==
    rejected # -1 =>
      /\ pc = "failed"
      /\ result = EmitError
      /\ Len(emitted) = rejected
      /\ \A j \in 1..Len(emitted) : emitted[j].batch = j - 1
      /\ thumb_calls = Min((rejected + 1) * batch_size, Len(images))

C6_DeliveryFailure ==
    /\ []C6_State
    /\ [][rejected # -1 =>
            /\ emitted' = emitted
            /\ thumb_calls' = thumb_calls
            /\ thumb_files' = thumb_files
            /\ result' = result]_vars

C6_Witness ==
    /\ rejected = 1
    /\ Len(emitted) = 1
    /\ Len(images) > 2 * batch_size

\* C7: when the thumbnails directory cannot be created while an image is
\* processed, the run aborts with an error instead of emitting reports.
C7_OutputDirFatal ==
    (thumbs_env = "unwritable" /\ thumb_calls > 0) =>
      /\ emitted = <<>>
      /\ pc # "done"

\* the regular files below the scanned root with an image name
ExpectedImages ==
    { f.path : f \in { g \in FilesBelow(source_path, Lookup(fs, source_path)) :
                         IsImageName(g.path[Len(g.path)]) } }

\* C8: the scan of a readable tree returns exactly the regular files, at
\* any depth, whose extension is one of the six up to case, each once.
C8_ScanExact ==
    (pc # "idle" /\ Readable(Lookup(fs, source_path))) =>
      /\ ScanSucceeded
      /\ \E expected \in {ExpectedImages} :
           /\ Range(images) = expected
           /\ Len(images) = Cardinality(expected)

C8_Witness ==
    /\ pc = "loop"
    /\ \E k \in 1..Len(images) : Len(images[k]) >= 4
    /\ \E k \in 1..Len(images) : images[k][Len(images[k])] = <<"D",".","J","P","E","G">>
    /\ Len(images) > batch_size

\* the directories that directly hold a discovered image
ImageDirs == { parent(images[k]).val : k \in 1..Len(images) }
DirectImages(d) == { k \in 1..Len(images) : parent(images[k]).val = d }

RECURSIVE CountSum(_, _)
CountSum(folders, i) ==
    IF i = 0 THEN 0 ELSE folders[i].image_count + CountSum(folders, i - 1)

\* C9: the summary holds exactly one FolderSummary per directory that
\* directly holds a discovered image, its count is the number of images
\* whose parent is that directory, and the counts sum to the total.
C9_FolderSummary ==
    (pc = "quick_done" /\ quick.ok) =>
      \E dirs \in {ImageDirs} :
        /\ Len(quick.val.folders) = Cardinality(dirs)
        /\ \A d \in dirs :
             \E i \in 1..Len(quick.val.folders) :
               /\ quick.val.folders[i].path = to_string_lossy(d)
               /\ quick.val.folders[i].image_count = Cardinality(DirectImages(d))
        /\ quick.val.total = Len(images)
        /\ CountSum(quick.val.folders, Len(quick.val.folders)) = quick.val.total

\* the paths of the tree are valid Unicode
RECURSIVE ValidNames(_)
ValidNames(node) ==
    /\ to_str(node.name).some
    /\ \A i \in 1..Len(node.entries) : ValidNames(node.entries[i])

\* The summary is as C9 says on the trees whose names are all valid Unicode.
FolderSummaryOnUnicodeTrees == ValidNames(fs) => C9_FolderSummary

\* C10: within a run the progress values never decrease, the report of
\* batch i carries (i + 1) / total_batches * 100 up to f32 rounding, and
\* the last report of a completed run with N > 0 carries exactly 100.
C10_Progress ==
    /\ \A j \in 1..Len(emitted) :
         \E p \in {emitted[j].progress} :
           /\ p.e < 0
           /\ (p.m * emitted[j].total_batches
                 - 100 * (emitted[j].batch + 1) * 2 ^ (0 - p.e))
                \in (0 - 2 * emitted[j].total_batches)
                    ..(2 * emitted[j].total_batches)
           /\ j > 1 => f32_le(emitted[j - 1].progress, p)
    /\ (IsCompleted /\ Len(images) > 0) =>
         /\ emitted # <<>>
         /\ emitted[Len(emitted)].progress = HUNDRED

C10_Witness ==
    /\ IsCompleted
    /\ Len(emitted) >= 3
    /\ emitted[1].progress # emitted[2].progress

====
